---- MODULE Spec2Model ----
(***************************************************************************)
(* Model of github-release-get (src/main.go): one run of the command,      *)
(* from flag validation to the final rename, against a hosting API and a   *)
(* file system it does not control.                                        *)
(*                                                                         *)
(* Strings are sequences of one-character strings, so that path.Match and  *)
(* filepath.Base are computed character by character as the Go library     *)
(* computes them (path.Match as of Go 1.16, filepath.Base with the POSIX    *)
(* separator).  File contents are sequences of byte values.                 *)
(***************************************************************************)
EXTENDS Integers, Sequences, FiniteSets, TLC

(***************************************************************************)
(* Bounds of the model.                                                    *)
(***************************************************************************)
\* the longest asset list a release carries
MaxAssets == 2
\* the number of bytes the server holds for one asset
BodyLen == 2

(***************************************************************************)
(* Byte order of the characters used in names and patterns (ASCII).        *)
(***************************************************************************)
Ord(c) ==
    CASE c = "*" -> 42
      [] c = "-" -> 45
      [] c = "." -> 46
      [] c = "/" -> 47
      [] c = "?" -> 63
      [] c = "[" -> 91
      [] c = "\\" -> 92
      [] c = "]" -> 93
      [] c = "^" -> 94
      [] c = "a" -> 97
      [] c = "b" -> 98
      [] c = "c" -> 99
      [] c = "d" -> 100
      [] OTHER -> 120

Drop(s, n) == SubSeq(s, n + 1, Len(s))

RECURSIVE IndexByte(_, _, _)
\* first position >= i of character c in s, 0 when there is none
IndexByte(s, c, i) ==
    IF i > Len(s) THEN 0
    ELSE IF s[i] = c THEN i
    ELSE IndexByte(s, c, i + 1)

(***************************************************************************)
(* path.Match (called at src/main.go:75).                                  *)
(***************************************************************************)
RECURSIVE StripStars(_)
StripStars(p) ==
    IF Len(p) > 0 /\ p[1] = "*" THEN StripStars(Tail(p)) ELSE p

RECURSIVE ScanIdx(_, _, _)
\* the scan loop of scanChunk: the position of the first '*' outside a
\* character class at or after i, Len(p) + 1 when there is none
ScanIdx(p, i, inrange) ==
    IF i > Len(p) THEN i
    ELSE CASE p[i] = "\\" -> IF i + 1 <= Len(p)
                              THEN ScanIdx(p, i + 2, inrange)
                              ELSE ScanIdx(p, i + 1, inrange)
           [] p[i] = "[" -> ScanIdx(p, i + 1, TRUE)
           [] p[i] = "]" -> ScanIdx(p, i + 1, FALSE)
           [] p[i] = "*" -> IF ~inrange THEN i ELSE ScanIdx(p, i + 1, inrange)
           [] OTHER -> ScanIdx(p, i + 1, inrange)

scanChunk(pattern) ==
    LET q == StripStars(pattern)
        k == ScanIdx(q, 1, FALSE)
    IN  [star |-> Len(pattern) > 0 /\ pattern[1] = "*",
         chunk |-> SubSeq(q, 1, k - 1),
         rest |-> SubSeq(q, k, Len(q))]

\* getEsc: one (possibly escaped) character of a character class
getEsc(chunk) ==
    IF Len(chunk) = 0 \/ chunk[1] = "-" \/ chunk[1] = "]"
    THEN [r |-> 0, nchunk |-> <<>>, err |-> TRUE]
    ELSE LET c1 == IF chunk[1] = "\\" THEN Tail(chunk) ELSE chunk
         IN  IF Len(c1) = 0
             THEN [r |-> 0, nchunk |-> <<>>, err |-> TRUE]
             ELSE [r |-> Ord(c1[1]), nchunk |-> Tail(c1),
                   err |-> Len(Tail(c1)) = 0]

RECURSIVE ClassRanges(_, _, _, _)
\* the "parse all ranges" loop of matchChunk; r is the rune under test
ClassRanges(chunk, r, match, nrange) ==
    IF Len(chunk) > 0 /\ chunk[1] = "]" /\ nrange > 0
    THEN [chunk |-> Tail(chunk), match |-> match, err |-> FALSE]
    ELSE LET lo == getEsc(chunk)
         IN  IF lo.err THEN [chunk |-> <<>>, match |-> FALSE, err |-> TRUE]
             ELSE IF lo.nchunk[1] = "-"
             THEN LET hi == getEsc(Tail(lo.nchunk))
                  IN  IF hi.err
                      THEN [chunk |-> <<>>, match |-> FALSE, err |-> TRUE]
                      ELSE ClassRanges(hi.nchunk, r,
                                       match \/ (lo.r <= r /\ r <= hi.r),
                                       nrange + 1)
             ELSE ClassRanges(lo.nchunk, r, match \/ lo.r = r, nrange + 1)

RECURSIVE matchChunkLoop(_, _, _)
\* the loop of matchChunk; once failed it goes on checking the syntax of
\* the chunk without reading s
matchChunkLoop(chunk, s, failed0) ==
    IF Len(chunk) = 0
    THEN IF failed0 THEN [rest |-> <<>>, ok |-> FALSE, err |-> FALSE]
         ELSE [rest |-> s, ok |-> TRUE, err |-> FALSE]
    ELSE
    LET failed == failed0 \/ Len(s) = 0
        s1 == IF failed THEN s ELSE Tail(s)
    IN  CASE chunk[1] = "[" ->
               LET c1 == Tail(chunk)
                   negated == Len(c1) > 0 /\ c1[1] = "^"
                   c2 == IF negated THEN Tail(c1) ELSE c1
                   r == IF failed THEN 0 ELSE Ord(s[1])
                   cls == ClassRanges(c2, r, FALSE, 0)
               IN  IF cls.err THEN [rest |-> <<>>, ok |-> FALSE, err |-> TRUE]
                   ELSE matchChunkLoop(cls.chunk, s1,
                                       failed \/ (cls.match = negated))
          [] chunk[1] = "?" ->
               matchChunkLoop(Tail(chunk), s1,
                              failed \/ (~failed /\ s[1] = "/"))
          [] chunk[1] = "\\" ->
               IF Len(chunk) = 1
               THEN [rest |-> <<>>, ok |-> FALSE, err |-> TRUE]
               ELSE matchChunkLoop(Drop(chunk, 2), s1,
                                   failed \/ (~failed /\ chunk[2] # s[1]))
          [] OTHER ->
               matchChunkLoop(Tail(chunk), s1,
                              failed \/ (~failed /\ chunk[1] # s[1]))

\* a matchChunk that reports a malformed chunk as a mismatch
matchChunkNoErr(chunk, s) ==
    [matchChunkLoop(chunk, s, FALSE) EXCEPT !.err = FALSE, !.ok = FALSE]

matchChunk(chunk, s) == matchChunkLoop(chunk, s, FALSE)

RECURSIVE RestErr(_)
\* "check that the remainder of the pattern is syntactically valid"
RestErr(pattern) ==
    IF Len(pattern) = 0 THEN FALSE
    ELSE LET sc == scanChunk(pattern)
         IN  matchChunk(sc.chunk, <<>>).err \/ RestErr(sc.rest)

RECURSIVE StarSkip(_, _, _, _)
\* the loop "look for match skipping i+1 bytes" (i counts from 0)
StarSkip(chunk, rest, name, i) ==
    IF ~(i < Len(name) /\ name[i + 1] # "/")
    THEN [found |-> FALSE, name |-> <<>>, err |-> FALSE]
    ELSE LET m == matchChunk(chunk, Drop(name, i + 1))
         IN  IF m.ok
             THEN IF Len(rest) = 0 /\ Len(m.rest) > 0
                  THEN StarSkip(chunk, rest, name, i + 1)
                  ELSE [found |-> TRUE, name |-> m.rest, err |-> FALSE]
             ELSE IF m.err
             THEN [found |-> FALSE, name |-> <<>>, err |-> TRUE]
             ELSE StarSkip(chunk, rest, name, i + 1)

RECURSIVE Match(_, _)
\* path.Match: [matched, err]; err is ErrBadPattern
Match(pattern, name) ==
    IF Len(pattern) = 0
    THEN [matched |-> Len(name) = 0, err |-> FALSE]
    ELSE
    LET sc == scanChunk(pattern)
        m == matchChunk(sc.chunk, name)
    IN  IF sc.star /\ Len(sc.chunk) = 0
        THEN [matched |-> IndexByte(name, "/", 1) = 0, err |-> FALSE]
        ELSE IF m.ok /\ (Len(m.rest) = 0 \/ Len(sc.rest) > 0)
        THEN Match(sc.rest, m.rest)
        ELSE IF m.err
        THEN [matched |-> FALSE, err |-> TRUE]
        ELSE LET sk == IF sc.star
                       THEN StarSkip(sc.chunk, sc.rest, name, 0)
                       ELSE [found |-> FALSE, name |-> <<>>, err |-> FALSE]
             IN  IF sk.found THEN Match(sc.rest, sk.name)
                 ELSE IF sk.err THEN [matched |-> FALSE, err |-> TRUE]
                 ELSE [matched |-> FALSE, err |-> RestErr(sc.rest)]

(***************************************************************************)
(* filepath.Base(filepath.FromSlash(name)) (src/main.go:88).  With the     *)
(* separator "/" FromSlash returns its argument and there is no volume     *)
(* name.                                                                   *)
(***************************************************************************)
RECURSIVE StripTrailingSlashes(_)
StripTrailingSlashes(path) ==
    IF Len(path) > 0 /\ path[Len(path)] = "/"
    THEN StripTrailingSlashes(SubSeq(path, 1, Len(path) - 1))
    ELSE path

RECURSIVE LastSlash(_, _)
\* the last position <= i of a separator in path, 0 when there is none
LastSlash(path, i) ==
    IF i = 0 THEN 0
    ELSE IF path[i] = "/" THEN i
    ELSE LastSlash(path, i - 1)

\* a Base that keeps the directories of the path
BaseKeepDirs(path) == IF Len(path) = 0 THEN <<".">> ELSE path

Base(path) ==
    IF Len(path) = 0 THEN <<".">>
    ELSE LET p1 == StripTrailingSlashes(path)
             p2 == Drop(p1, LastSlash(p1, Len(p1)))
         IN  IF Len(p2) = 0 THEN <<"/">> ELSE p2


(***************************************************************************)
(* The inputs of a run and its environment.                                *)
(***************************************************************************)
Owners == { <<>>, <<"o">> }
Repos == { <<>>, <<"r">> }
Patterns ==
    { <<>>, <<"*">>, <<"a", "*">>, <<"b">>, <<"*", "/", "*">>,
      <<"a", "[", "b">>, <<"\\">> }
AssetNames ==
    { <<>>, <<"a">>, <<"a", "b">>, <<"/", "a">>,
      <<".", ".", "/", "a">>, <<"a", "/", ".", ".">> }
\* go-github's ReleaseAsset records of a release; the API numbers assets
\* with positive identifiers
Releases ==
    UNION { { [i \in 1..n |-> [id |-> i, name |-> f[i]]] :
                f \in [1..n -> AssetNames] } : n \in 0..MaxAssets }

\* the bytes the server holds for the asset with identifier i
AssetBody(i) == [k \in 1..BodyLen |-> 10 * i + k]
\* the content of a file that is in the working directory before the run
OldData == <<0>>
\* the content another process writes
OtherData == <<0, 0>>

File(data) == [kind |-> "file", data |-> data]
Dir == [kind |-> "dir", data |-> <<>>]
\* names that may be present in the working directory before the run
OldNames == { <<"a">>, <<"a", "b">> }
\* directories every process sees
DirNames == { <<".">>, <<".", ".">>, <<"/">> }

MkErr(kind) == [kind |-> kind, pattern |-> <<>>, names |-> <<>>, file |-> <<>>]
NoErr == MkErr("none")

VARIABLES
    args,      \* runArgs: Owner, Repo, Pattern, Timeout (0: no deadline)
    release,   \* release.Assets as the API returns them
    ctxDone,   \* ctx.Done() is closed
    pc,        \* position of run
    id,        \* var id int64
    name,      \* var name string
    dst,       \* dst
    rc,        \* what DownloadReleaseAsset returned: stream, url, badurl, none
    stream,    \* bytes not yet read from the body being copied
    err,       \* the error run returned
    reqs,      \* the requests sent so far, in order
    fs,        \* the file system: path -> file or directory
    fs0,       \* history: the file system when the run began
    cancelAt,  \* history: the position of run when the deadline expired
    raced      \* history: another process created dst after the check

vars == << args, release, ctxDone, pc, id, name, dst, rc, stream, err, reqs,
           fs, fs0, cancelAt, raced >>

\* the staging file opened under the destination name
StagingAtDst == dst

\* the name ioutil.TempFile makes in the system temporary directory
TmpName == <<"/", "t", "m", "p", "/", ".", "g">>

InitFs(old) ==
    [p \in DirNames \cup old |-> IF p \in DirNames THEN Dir ELSE File(OldData)]

Init ==
    /\ args \in [Owner : Owners, Repo : Repos, Pattern : Patterns,
                 Timeout : {0, 1}]
    /\ release \in Releases
    /\ \E old \in SUBSET OldNames : fs = InitFs(old)
    /\ fs0 = fs
    /\ ctxDone = FALSE
    /\ pc = "start"
    /\ id = 0
    /\ name = <<>>
    /\ dst = <<>>
    /\ rc = "none"
    /\ stream = <<>>
    /\ err = NoErr
    /\ reqs = <<>>
    /\ cancelAt = "none"
    /\ raced = FALSE

(***************************************************************************)
(* The selection loop of run (src/main.go:71-84).                          *)
(***************************************************************************)
RECURSIVE SelectLoop(_, _, _, _)
SelectLoop(assets, pattern, i, nm) ==
    IF i > Len(assets) THEN [id |-> 0, name |-> nm, err |-> FALSE]
    ELSE LET n == assets[i].name
             m == Match(pattern, n)
         IN  IF m.err THEN [id |-> 0, name |-> n, err |-> TRUE]
             ELSE IF m.matched
             THEN [id |-> assets[i].id, name |-> n, err |-> FALSE]
             ELSE SelectLoop(assets, pattern, i + 1, n)

RECURSIVE SelectLoopNoBreak(_, _, _, _, _)
\* the loop without its break: a later match replaces an earlier one
SelectLoopNoBreak(assets, pattern, i, found, nm) ==
    IF i > Len(assets) THEN [id |-> found, name |-> nm, err |-> FALSE]
    ELSE LET n == assets[i].name
             m == Match(pattern, n)
         IN  IF m.err THEN [id |-> 0, name |-> n, err |-> TRUE]
             ELSE IF m.matched
             THEN SelectLoopNoBreak(assets, pattern, i + 1, assets[i].id, n)
             ELSE SelectLoopNoBreak(assets, pattern, i + 1, found, nm)

SelectNoBreak(assets, pattern) ==
    SelectLoopNoBreak(assets, pattern, 1, 0, <<>>)

SelectAsset(assets, pattern) == SelectLoop(assets, pattern, 1, <<>>)

\* the names listed by the no-match error (src/main.go:93-96)
RECURSIVE NamesOf(_)
NamesOf(assets) ==
    IF Len(assets) = 0 THEN <<>>
    ELSE <<assets[1].name>> \o NamesOf(Tail(assets))

(***************************************************************************)
(* run, step by step.                                                      *)
(***************************************************************************)
\* return e before the staging file exists
Fail(e) ==
    /\ pc' = "failed"
    /\ err' = e

\* os.Remove(tf.Name()), deferred at src/main.go:108
RemoveTmp(f) == [p \in DOMAIN f \ {TmpName} |-> f[p]]

\* return e once the deferred removal is registered
FailCleanup(e) ==
    /\ Fail(e)
    /\ fs' = RemoveTmp(fs)

Request(kind, i) == [kind |-> kind, id |-> i]

\* a check that never finds the file
StatNeverFinds(f, path) == TRUE

\* os.Stat(path) can report that path does not exist (src/main.go:89)
StatNotExist(f, path) == path \notin DOMAIN f

\* src/main.go:51-53
StartMissingFlags ==
    /\ pc = "start"
    /\ (args.Owner = <<>> \/ args.Repo = <<>> \/ args.Pattern = <<>>)
    /\ Fail(MkErr("flags"))
    /\ UNCHANGED << args, release, ctxDone, id, name, dst, rc, stream, reqs,
                    fs, fs0, cancelAt, raced >>

\* src/main.go:54-67: the context, the client, the lookup request
StartLookup ==
    /\ pc = "start"
    /\ ~(args.Owner = <<>> \/ args.Repo = <<>> \/ args.Pattern = <<>>)
    /\ reqs' = Append(reqs, Request("latest", 0))
    /\ pc' = "lookup"
    /\ UNCHANGED << args, release, ctxDone, id, name, dst, rc, stream, err,
                    fs, fs0, cancelAt, raced >>

\* the deadline of src/main.go:56 expires
Deadline ==
    /\ args.Timeout > 0
    /\ ~ctxDone
    /\ pc \notin {"start", "done", "failed"}
    /\ ctxDone' = TRUE
    /\ cancelAt' = pc
    /\ UNCHANGED << args, release, pc, id, name, dst, rc, stream, err, reqs,
                    fs, fs0, raced >>

\* src/main.go:67-70: GetLatestRelease fails (transport, API, context)
LatestReleaseErr ==
    /\ pc = "lookup"
    /\ Fail(MkErr(IF ctxDone THEN "context" ELSE "api"))
    /\ UNCHANGED << args, release, ctxDone, id, name, dst, rc, stream, reqs,
                    fs, fs0, cancelAt, raced >>

\* src/main.go:67: GetLatestRelease returns the release
LatestReleaseOk ==
    /\ pc = "lookup"
    /\ ~ctxDone
    /\ pc' = "select"
    /\ UNCHANGED << args, release, ctxDone, id, name, dst, rc, stream, err,
                    reqs, fs, fs0, cancelAt, raced >>

\* src/main.go:71-88: the loop, the empty-name check, dst
Select ==
    /\ pc = "select"
    /\ LET sel == SelectAsset(release, args.Pattern)
       IN  /\ id' = sel.id
           /\ name' = sel.name
           /\ IF sel.err
              THEN Fail(MkErr("badpattern")) /\ dst' = dst
              ELSE IF sel.name = <<>>
              THEN Fail(MkErr("emptyname")) /\ dst' = dst
              ELSE /\ dst' = Base(sel.name)
                   /\ pc' = "stat"
                   /\ err' = err
    /\ UNCHANGED << args, release, ctxDone, rc, stream, reqs, fs, fs0,
                    cancelAt, raced >>

\* src/main.go:89-91: os.Stat(dst) finds the file, or fails for a reason
\* other than not-exist
StatExists ==
    /\ pc = "stat"
    /\ Fail([MkErr("exists") EXCEPT !.file = dst])
    /\ UNCHANGED << args, release, ctxDone, id, name, dst, rc, stream, reqs,
                    fs, fs0, cancelAt, raced >>

\* src/main.go:89-98: dst does not exist and no asset was selected
StatNoMatch ==
    /\ pc = "stat"
    /\ StatNotExist(fs, dst)
    /\ id = 0
    /\ Fail([MkErr("nomatch") EXCEPT !.pattern = args.Pattern,
                                     !.names = NamesOf(release)])
    /\ UNCHANGED << args, release, ctxDone, id, name, dst, rc, stream, reqs,
                    fs, fs0, cancelAt, raced >>

\* src/main.go:89-99: dst does not exist; the asset-content request
StatDownload ==
    /\ pc = "stat"
    /\ StatNotExist(fs, dst)
    /\ id # 0
    /\ reqs' = Append(reqs, Request("asset", id))
    /\ pc' = "download"
    /\ UNCHANGED << args, release, ctxDone, id, name, dst, rc, stream, err,
                    fs, fs0, cancelAt, raced >>

\* src/main.go:99-102: DownloadReleaseAsset fails
DownloadErr ==
    /\ pc = "download"
    /\ Fail(MkErr(IF ctxDone THEN "context" ELSE "api"))
    /\ UNCHANGED << args, release, ctxDone, id, name, dst, rc, stream, reqs,
                    fs, fs0, cancelAt, raced >>

\* src/main.go:99: DownloadReleaseAsset returns a body, a redirect URL (one
\* http.NewRequest accepts or not), or neither
DownloadOk(mode) ==
    /\ pc = "download"
    /\ ~ctxDone
    /\ rc' = mode
    /\ pc' = "tempfile"
    /\ UNCHANGED << args, release, ctxDone, id, name, dst, stream, err, reqs,
                    fs, fs0, cancelAt, raced >>

\* src/main.go:103-106: ioutil.TempFile fails
TempFileErr ==
    /\ pc = "tempfile"
    /\ Fail(MkErr("tempfile"))
    /\ UNCHANGED << args, release, ctxDone, id, name, dst, rc, stream, reqs,
                    fs, fs0, cancelAt, raced >>

\* src/main.go:103-108: the staging file is created, its removal deferred
TempFileOk ==
    /\ pc = "tempfile"
    /\ fs' = [p \in DOMAIN fs \cup {TmpName} |->
                 IF p = TmpName THEN File(<<>>) ELSE fs[p]]
    /\ pc' = "switch"
    /\ UNCHANGED << args, release, ctxDone, id, name, dst, rc, stream, err,
                    reqs, fs0, cancelAt, raced >>

\* the body served for the last request sent
Served == AssetBody(reqs[Len(reqs)].id)

\* src/main.go:110-111: rc != nil
SwitchStream ==
    /\ pc = "switch"
    /\ rc = "stream"
    /\ stream' = Served
    /\ pc' = "copy"
    /\ UNCHANGED << args, release, ctxDone, id, name, dst, rc, err, reqs, fs,
                    fs0, cancelAt, raced >>

\* src/main.go:115-121: u != "", the plain GET is sent
SwitchUrl ==
    /\ pc = "switch"
    /\ rc = "url"
    /\ reqs' = Append(reqs, Request("get", id))
    /\ pc' = "httpget"
    /\ UNCHANGED << args, release, ctxDone, id, name, dst, rc, stream, err,
                    fs, fs0, cancelAt, raced >>

\* src/main.go:116-119: http.NewRequest rejects the URL
SwitchBadUrl ==
    /\ pc = "switch"
    /\ rc = "badurl"
    /\ FailCleanup(MkErr("newrequest"))
    /\ UNCHANGED << args, release, ctxDone, id, name, dst, rc, stream, reqs,
                    fs0, cancelAt, raced >>

\* src/main.go:132-134: neither a body nor a URL
SwitchDefault ==
    /\ pc = "switch"
    /\ rc = "none"
    /\ FailCleanup(MkErr("nolink"))
    /\ UNCHANGED << args, release, ctxDone, id, name, dst, rc, stream, reqs,
                    fs0, cancelAt, raced >>

\* src/main.go:121-124: http.DefaultClient.Do fails
HttpDoErr ==
    /\ pc = "httpget"
    /\ FailCleanup(MkErr(IF ctxDone THEN "context" ELSE "http"))
    /\ UNCHANGED << args, release, ctxDone, id, name, dst, rc, stream, reqs,
                    fs0, cancelAt, raced >>

\* src/main.go:126-128: the response is not 200 OK
HttpDoBadStatus ==
    /\ pc = "httpget"
    /\ ~ctxDone
    /\ FailCleanup(MkErr("status"))
    /\ UNCHANGED << args, release, ctxDone, id, name, dst, rc, stream, reqs,
                    fs0, cancelAt, raced >>

\* src/main.go:121-129: 200 OK, the body is about to be copied
HttpDoOk ==
    /\ pc = "httpget"
    /\ ~ctxDone
    /\ stream' = Served
    /\ pc' = "copy"
    /\ UNCHANGED << args, release, ctxDone, id, name, dst, rc, err, reqs, fs,
                    fs0, cancelAt, raced >>

\* a reader that does not see the context
ReadableIgnoringCtx(done) == TRUE

\* a read of a body whose request carries ctx can succeed
\* (src/main.go:99, src/main.go:120)
Readable(done) == ~done

\* io.Copy (src/main.go:112, src/main.go:129): one chunk read and written
CopyChunk ==
    /\ pc = "copy"
    /\ Readable(ctxDone)
    /\ Len(stream) > 0
    /\ fs' = [fs EXCEPT ![TmpName] = File(@.data \o <<Head(stream)>>)]
    /\ stream' = Tail(stream)
    /\ UNCHANGED << args, release, ctxDone, pc, id, name, dst, rc, err, reqs,
                    fs0, cancelAt, raced >>

\* io.Copy reads EOF and returns nil
CopyEOF ==
    /\ pc = "copy"
    /\ Readable(ctxDone)
    /\ Len(stream) = 0
    /\ pc' = "close"
    /\ UNCHANGED << args, release, ctxDone, id, name, dst, rc, stream, err,
                    reqs, fs, fs0, cancelAt, raced >>

\* the error of io.Copy dropped: run goes on to close and rename
CopyErrIgnored ==
    /\ pc = "copy"
    /\ pc' = "close"
    /\ UNCHANGED << args, release, ctxDone, id, name, dst, rc, stream, err,
                    reqs, fs, fs0, cancelAt, raced >>

\* src/main.go:112-114, 129-131: io.Copy returns an error
CopyErr ==
    /\ pc = "copy"
    /\ FailCleanup(MkErr(IF ctxDone THEN "context" ELSE "copy"))
    /\ UNCHANGED << args, release, ctxDone, id, name, dst, rc, stream, reqs,
                    fs0, cancelAt, raced >>

\* src/main.go:135-137: tf.Close fails
CloseErr ==
    /\ pc = "close"
    /\ FailCleanup(MkErr("close"))
    /\ UNCHANGED << args, release, ctxDone, id, name, dst, rc, stream, reqs,
                    fs0, cancelAt, raced >>

\* src/main.go:135: tf.Close succeeds
CloseOk ==
    /\ pc = "close"
    /\ pc' = "rename"
    /\ UNCHANGED << args, release, ctxDone, id, name, dst, rc, stream, err,
                    reqs, fs, fs0, cancelAt, raced >>

\* src/main.go:138: os.Rename fails; the deferred removal runs
RenameErr ==
    /\ pc = "rename"
    /\ FailCleanup(MkErr("rename"))
    /\ UNCHANGED << args, release, ctxDone, id, name, dst, rc, stream, reqs,
                    fs0, cancelAt, raced >>

\* rename(2): the file at from takes the name to, replacing a file there
Renamed(f, from, to) ==
    [p \in (DOMAIN f \ {from}) \cup {to} |-> IF p = to THEN f[from] ELSE f[p]]

\* src/main.go:138: os.Rename succeeds (a directory at dst is not replaced);
\* the deferred removal finds no staging file
RenameOk ==
    /\ pc = "rename"
    /\ (dst \in DOMAIN fs => fs[dst].kind = "file")
    /\ fs' = RemoveTmp(Renamed(fs, TmpName, dst))
    /\ pc' = "done"
    /\ UNCHANGED << args, release, ctxDone, id, name, dst, rc, stream, err,
                    reqs, fs0, cancelAt, raced >>

\* another process creates a file in the working directory
OtherCreate(p) ==
    /\ pc \notin {"done", "failed"}
    /\ p \notin DOMAIN fs
    /\ fs' = [q \in DOMAIN fs \cup {p} |->
                 IF q = p THEN File(OtherData) ELSE fs[q]]
    /\ raced' = (raced \/ (p = dst /\ pc \in {"download", "tempfile", "switch",
                                              "httpget", "copy", "close",
                                              "rename"}))
    /\ UNCHANGED << args, release, ctxDone, pc, id, name, dst, rc, stream,
                    err, reqs, fs0, cancelAt >>

Next ==
    \/ StartMissingFlags
    \/ StartLookup
    \/ Deadline
    \/ LatestReleaseErr
    \/ LatestReleaseOk
    \/ Select
    \/ StatExists
    \/ StatNoMatch
    \/ StatDownload
    \/ DownloadErr
    \/ \E mode \in {"stream", "url", "badurl", "none"} : DownloadOk(mode)
    \/ TempFileErr
    \/ TempFileOk
    \/ SwitchStream
    \/ SwitchUrl
    \/ SwitchBadUrl
    \/ SwitchDefault
    \/ HttpDoErr
    \/ HttpDoBadStatus
    \/ HttpDoOk
    \/ CopyChunk
    \/ CopyEOF
    \/ CopyErr
    \/ CloseErr
    \/ CloseOk
    \/ RenameErr
    \/ RenameOk

\* a run alone in its working directory
Spec == Init /\ [][Next]_vars

NextRace ==
    \/ Next
    \/ \E p \in { Base(n) : n \in AssetNames } : OtherCreate(p)

\* a run while another process creates files in the working directory
SpecRace == Init /\ [][NextRace]_vars

(***************************************************************************)
(* Vocabulary of the properties.                                           *)
(***************************************************************************)
Terminal == pc \in {"done", "failed"}

FlagsOk == args.Owner # <<>> /\ args.Repo # <<>> /\ args.Pattern # <<>>

\* the patterns of Patterns that path.Match rejects
Malformed(p) == p \in { <<"a", "[", "b">>, <<"\\">> }

\* the positions of the assets whose name matches the pattern
Matching ==
    { i \in 1..Len(release) : Match(args.Pattern, release[i].name).matched }

FirstMatching == CHOOSE i \in Matching : \A j \in Matching : i <= j

\* run got the release and went through the selection loop
SelectionRan == pc \notin {"start", "lookup", "select"} /\ Len(reqs) >= 1
                /\ ~(pc = "failed" /\ err.kind \in {"flags", "api", "context"}
                     /\ Len(reqs) = 1)

AssetRequests == { k \in 1..Len(reqs) : reqs[k].kind = "asset" }

ContentRequests == { k \in 1..Len(reqs) : reqs[k].kind \in {"asset", "get"} }

HasSlash(s) == IndexByte(s, "/", 1) > 0

\* p is a path relative to the working directory
Relative(p) == Len(p) > 0 /\ p[1] # "/"

\* p is one path segment naming an entry of the working directory
SingleSegment(p) ==
    Len(p) > 0 /\ ~HasSlash(p) /\ p \notin { <<".">>, <<".", ".">> }

\* p is what follows the last separator of n
FinalSegmentOf(p, n) ==
    /\ Len(p) <= Len(n)
    /\ SubSeq(n, Len(n) - Len(p) + 1, Len(n)) = p
    /\ ~HasSlash(p)
    /\ (Len(p) = Len(n) \/ n[Len(n) - Len(p)] = "/")

\* the paths the run has created or whose content it has changed
Touched == { p \in DOMAIN fs : p \notin DOMAIN fs0 \/ fs[p] # fs0[p] }

(***************************************************************************)
(* Properties.                                                             *)
(***************************************************************************)
\* C1: the identifier sent in the asset-content request, the selected name
\* and the destination are those of the first asset, in list order, whose
\* name matches the pattern; a finished run has that asset's bytes at the
\* destination, whatever later assets match.
C1_FirstMatchSelected ==
    /\ (\A k \in AssetRequests :
          /\ Matching # {}
          /\ reqs[k].id = release[FirstMatching].id)
    /\ (SelectionRan /\ Matching # {} =>
          /\ id = release[FirstMatching].id
          /\ name = release[FirstMatching].name)
    /\ (pc = "done" =>
          /\ Matching # {}
          /\ FinalSegmentOf(dst, release[FirstMatching].name)
          /\ dst \in DOMAIN fs
          /\ fs[dst] = File(AssetBody(release[FirstMatching].id)))

\* a finished run in which a later asset matches as well
C1_Witness ==
    /\ pc = "done"
    /\ Cardinality(Matching) >= 2
    /\ release[1].name # release[2].name

\* C2: whenever a well-formed pattern matches no asset name of the release,
\* run fails with the no-match error carrying the pattern and the names of
\* all assets, for any asset list and any content of the working directory.
C2_NoMatchReported ==
    (SelectionRan /\ ~Malformed(args.Pattern) /\ Matching = {}) =>
        /\ pc = "failed"
        /\ err.kind = "nomatch"
        /\ err.pattern = args.Pattern
        /\ err.names = NamesOf(release)

\* C3: when the destination of the matched asset exists at the check, run
\* ends with the already-exists error, with no asset-content request sent,
\* no staging file created and the file system as it was; the same holds
\* however the already-exists error arises.
C3_ExistingFileRefused ==
    /\ (SelectionRan /\ id # 0 /\ pc # "stat" /\ dst \in DOMAIN fs0 =>
          /\ pc = "failed"
          /\ err.kind = "exists"
          /\ err.file = dst)
    /\ (err.kind = "exists" =>
          /\ ContentRequests = {}
          /\ TmpName \notin DOMAIN fs
          /\ fs = fs0)

\* the matched asset's destination was there before the run, which refused
C3_Witness ==
    /\ pc = "failed"
    /\ err.kind = "exists"
    /\ id # 0
    /\ dst \in DOMAIN fs0
    /\ fs0[dst] = File(OldData)

\* C4: when another process creates the destination after the existence
\* check and before the rename, run ends in failure and the file of the
\* other process keeps its content.
C4_RaceLoses ==
    (raced /\ Terminal) =>
        /\ pc = "failed"
        /\ dst \in DOMAIN fs
        /\ fs[dst] = File(OtherData)

\* C5: a run that returns success leaves at the destination exactly the
\* bytes served for the asset it requested, and no staging file.
C5_CompleteContent ==
    pc = "done" =>
        /\ dst \in DOMAIN fs
        /\ \E k \in AssetRequests :
              /\ reqs[k].id = id
              /\ fs[dst] = File(AssetBody(reqs[k].id))
        /\ TmpName \notin DOMAIN fs

\* a success through the redirect URL
C5_Witness ==
    /\ pc = "done"
    /\ rc = "url"
    /\ dst \in DOMAIN fs
    /\ Len(fs[dst].data) = BodyLen

\* C6: once the deadline expires while the body is being copied, the copy
\* cannot complete: run fails with the context's error, nothing exists under
\* the destination name and the staging file is removed.
C6_CancelledCopy ==
    cancelAt = "copy" =>
        /\ pc \in {"copy", "failed"}
        /\ dst \notin DOMAIN fs
        /\ (pc = "failed" =>
              /\ err.kind = "context"
              /\ TmpName \notin DOMAIN fs)

\* the deadline expired after a part of the body was written
C6_Witness ==
    /\ cancelAt = "copy"
    /\ pc = "failed"
    /\ Len(stream) > 0
    /\ Len(stream) < BodyLen

\* C7 as stated: with a malformed pattern run sends no request at all and
\* ends with the pattern error.
C7_NoRequestAtAll ==
    (FlagsOk /\ Malformed(args.Pattern)) =>
        /\ reqs = <<>>
        /\ (Terminal => pc = "failed" /\ err.kind = "badpattern")

\* C7 amended: with a malformed pattern run sends the latest-release lookup
\* and nothing else, touches no file and never succeeds; once the release
\* is fetched it fails with the pattern error if the release has an asset
\* (with the empty-name error if it has none).
C7_BadPatternAfterLookup ==
    (FlagsOk /\ Malformed(args.Pattern)) =>
        /\ \A k \in 1..Len(reqs) : reqs[k] = Request("latest", 0)
        /\ Len(reqs) <= 1
        /\ fs = fs0
        /\ pc \in {"start", "lookup", "select", "failed"}
        /\ (pc = "failed" =>
              /\ err.kind \in {"api", "context", "badpattern", "emptyname"}
              /\ (err.kind = "badpattern" => release # <<>> /\ Len(reqs) = 1)
              /\ (err.kind = "emptyname" => release = <<>>))

\* the pattern error, after the lookup
C7_Witness ==
    /\ Malformed(args.Pattern)
    /\ pc = "failed"
    /\ err.kind = "badpattern"
    /\ reqs = << Request("latest", 0) >>
    /\ Len(release) = MaxAssets

\* C8: in every state every entry of the working directory is as it was
\* before the run or is the destination holding the complete content of the
\* requested asset, and after a failed run there is no staging file.
C8_NeverPartial ==
    /\ \A p \in DOMAIN fs :
          Relative(p) =>
              \/ (p \in DOMAIN fs0 /\ fs[p] = fs0[p])
              \/ /\ p = dst
                 /\ \E k \in AssetRequests : fs[p] = File(AssetBody(reqs[k].id))
    /\ (pc = "failed" => TmpName \notin DOMAIN fs)

\* a copy that failed after a part of the body was written
C8_Witness ==
    /\ pc = "failed"
    /\ err.kind = "copy"
    /\ Len(stream) > 0
    /\ Len(stream) < BodyLen
    /\ dst \notin DOMAIN fs

\* C9: whatever separators the asset name holds, the only paths the run
\* creates or changes are the staging file and one entry of the working
\* directory named by the final segment of the asset name.
C9_StaysInWorkingDir ==
    \A p \in Touched :
        \/ p = TmpName
        \/ /\ SingleSegment(p)
           /\ FinalSegmentOf(p, name)

\* a file written for an asset whose name holds a separator
C9_Witness ==
    /\ pc = "done"
    /\ HasSlash(name)
    /\ dst \in Touched

\* C10: an empty release is reported as no match, and a matched asset with
\* an empty name is reported neither as no match nor as an empty selection.
C10_Distinguished ==
    /\ (SelectionRan /\ pc = "failed" /\ release = <<>> /\
        ~Malformed(args.Pattern) => err.kind = "nomatch")
    /\ (SelectionRan /\ Matching # {} /\ name = <<>> =>
          err.kind \notin {"emptyname", "nomatch"})

====
